---- MODULE Spec2Model ----
(***************************************************************************)
(* Model of the aoti-rs C++ bridge (src/csrc/aoti.cc, src/csrc/aoti.h):    *)
(* the functions that marshal tensor handles and metadata between a        *)
(* caller and torch::inductor::AOTIModelPackageLoader.                     *)
(*                                                                         *)
(* The heap of at::Tensor objects is a function from addresses to cells;   *)
(* a TensorPtr / OwnedTensor is an address (aoti.h:13-19).  Each caller    *)
(* thread walks through loader_run / loader_boxed_run in four steps:       *)
(* marshal the inputs, invoke the wrapped loader, heap-allocate the        *)
(* outputs, return.  The wrapped loader is the environment: what it        *)
(* returns is drawn from the package opened by loader_new.                 *)
(***************************************************************************)
EXTENDS Integers, Sequences, FiniteSets, TLC

\* ------------------------------------------------------------------ bounds
MaxAddr == 3
MaxLen == 2
MaxVal == 2

Callers == {"t1", "t2"}
Addr == 1..MaxAddr
Vals == 1..MaxVal

\* -------------------------------------------------------------- packages
\* The on-disk artifacts loader_new and load_metadata_from_package can be
\* pointed at: each fixes the metadata, the call spec, the constant names and
\* the compiled entry point (its arity and what it computes).
PackageIds == {"p1", "p2"}

Packages ==
    [p \in PackageIds |->
        IF p = "p1"
        THEN [metadata      |-> {<<"AOTI_DEVICE_KEY", "cpu">>},
              call_spec     |-> <<"in_spec_1", "out_spec_1">>,
              constant_fqns |-> <<>>,
              arity         |-> 2]
        ELSE [metadata      |-> {<<"AOTI_DEVICE_KEY", "cuda">>, <<"version", "2">>},
              call_spec     |-> <<"in_spec_2", "out_spec_2">>,
              constant_fqns |-> <<"fc.weight", "fc.bias">>,
              arity         |-> 1]]

\* ---------------------------------------------------------------- helpers
Range(s) == {s[i] : i \in 1..Len(s)}

SeqsUpTo(S, n) == UNION {[1..k -> S] : k \in 0..n}

NoTensor == [owner |-> "none", val |-> 0]

Live(h, a) == h[a].owner # "none"

Succ(v) == (v % MaxVal) + 1

\* What the compiled entry point of package p computes from the tensors it is
\* handed: a failure when the arity is wrong, otherwise its outputs, in the
\* order the model defines.  p1 takes two tensors and answers with one made
\* from the second; p2 takes one and answers with two.
EntryPoint(p, ins) ==
    IF Len(ins) # Packages[p].arity
    THEN [ok |-> FALSE, diag |-> "arity", outs |-> <<>>]
    ELSE IF p = "p1"
         THEN [ok |-> TRUE, diag |-> "", outs |-> <<Succ(ins[2])>>]
         ELSE [ok |-> TRUE, diag |-> "", outs |-> <<ins[1], Succ(ins[1])>>]

InternalFault == [ok |-> FALSE, diag |-> "fault", outs |-> <<>>]

\* loader.run(cpp_inputs): the entry point's answer, or an internal fault.
LoaderRun(p, ins) == {EntryPoint(p, ins), InternalFault}

\* loader.boxed_run(std::move(cpp_inputs)): the same entry point, handed the
\* vector by move.
LoaderBoxedRun(p, ins) == {EntryPoint(p, ins), InternalFault}


\* ------------------------------------------------------------------ state
VARIABLES
    loader,        \* the AOTIModelPackageLoader behind the unique_ptr of loader_new
    heap,          \* Addr -> the at::Tensor object at that address, or NoTensor
    pc,            \* each caller's position in loader_run / loader_boxed_run
    call,          \* each caller's locals: inputs, cpp_inputs, outputs, result
    last,          \* what the last completed call returned to its caller
    reads,         \* per introspection call, its last result on the live loader
    everReturned,  \* every address some call has returned as an OwnedTensor
    staticMd,      \* per package, the last result of load_metadata_from_package
    crashed        \* the process has died

vars == <<loader, heap, pc, call, last, reads, everReturned, staticMd, crashed>>

NoLoader == [state |-> "None", pkg |-> "p1", single |-> FALSE, runners |-> 0]

NoCall == [kind |-> "none", inputs |-> <<>>, cpp_inputs |-> <<>>,
           outputs |-> <<>>, result |-> <<>>, err |-> "", invocations |-> 0]

NoRet == [op |-> "none", status |-> "none", err |-> "", n |-> 0]

Getters == {"get_metadata", "get_call_spec", "get_constant_fqns"}

\* The tensors the caller holds before any call: tch-rs tensors at the first
\* addresses, with values that tell them apart.
NumInputs == 1

\* The (run_single_threaded, num_runners) pairs loader_new is called with.
Configs == {[single |-> TRUE, runners |-> 1], [single |-> FALSE, runners |-> 2]}

Init ==
    /\ loader = NoLoader
    /\ heap = [a \in Addr |-> IF a <= NumInputs
                               THEN [owner |-> "caller", val |-> ((a - 1) % MaxVal) + 1]
                               ELSE NoTensor]
    /\ pc = [c \in Callers |-> "idle"]
    /\ call = [c \in Callers |-> NoCall]
    /\ last = NoRet
    /\ reads = [g \in Getters |-> <<>>]
    /\ everReturned = {}
    /\ staticMd = [p \in PackageIds |-> <<>>]
    /\ crashed = FALSE

\* --------------------------------------------------------- construction
\* loader_new: the loader is constructed on package p and handed to the
\* caller behind a unique_ptr.
loader_new(p, run_single_threaded, num_runners) ==
    /\ ~crashed
    /\ loader.state = "None"
    /\ loader' = [state |-> "Ready", pkg |-> p,
                  single |-> run_single_threaded, runners |-> num_runners]
    /\ UNCHANGED <<heap, pc, call, last, reads, everReturned, staticMd, crashed>>

\* The unique_ptr goes out of scope: the loader is destroyed.  The references
\* the bridge functions take are not invalidated by this.
Release ==
    /\ ~crashed
    /\ loader.state = "Ready"
    /\ \A c \in Callers : pc[c] = "idle"
    /\ loader' = [loader EXCEPT !.state = "Released"]
    /\ UNCHANGED <<heap, pc, call, last, reads, everReturned, staticMd, crashed>>

\* A call through a reference to a destroyed loader: the process may die.
UseAfterFreeCrash ==
    /\ loader.state = "Released"
    /\ crashed' = TRUE
    /\ UNCHANGED <<loader, heap, pc, call, last, reads, everReturned, staticMd>>

\* ------------------------------------------------------- run, boxed_run
\* Faulty variant: the first loop fills cpp_inputs back to front.
MarshalInputsReversed(h, inputs) ==
    [i \in 1..Len(inputs) |-> h[inputs[Len(inputs) + 1 - i]].val]

\* loader_run's first loop: cpp_inputs[i] is a copy of the tensor the i-th
\* TensorPtr points at.
MarshalInputs(h, inputs) == [i \in 1..Len(inputs) |-> h[inputs[i]].val]

\* Faulty variant: loader_boxed_run's first loop fills cpp_inputs back to front.
BoxedMarshalInputsReversed(h, inputs) ==
    [i \in 1..Len(inputs) |-> h[inputs[Len(inputs) + 1 - i]].val]

\* loader_boxed_run's first loop, the same.
BoxedMarshalInputs(h, inputs) == [i \in 1..Len(inputs) |-> h[inputs[i]].val]

\* Faulty variant: the OwnedTensors point at objects that were not allocated for them
\* (the address of a temporary, or of an input).
NewAddrsAny(h, n) == [1..n -> Addr]

\* new at::Tensor(...), n times: n distinct addresses that hold no object.
NewAddrs(h, n) ==
    {s \in [1..n -> Addr] :
        /\ \A i \in 1..n : ~Live(h, s[i])
        /\ \A i, j \in 1..n : i # j => s[i] # s[j]}

\* The second loop: the i-th output is moved into the object at addrs[i],
\* which the function holds until it returns.
BoxOutputs(h, outputs, addrs) ==
    [a \in Addr |->
        IF \E i \in 1..Len(addrs) : addrs[i] = a
        THEN [owner |-> "core",
              val   |-> outputs[CHOOSE i \in 1..Len(addrs) : addrs[i] = a]]
        ELSE h[a]]

\* ot.ptr of the i-th OwnedTensor pushed onto result.
ResultOf(addrs) == [i \in 1..Len(addrs) |-> addrs[i]]

\* Faulty variant: a catch-all around loader.run returns the empty result.
RunThrowsSwallowed(c) == [op |-> "run", status |-> "ok", err |-> "", n |-> 0]

\* What the caller gets when loader.run has thrown: nothing catches the
\* exception, so it leaves loader_run with the runtime's diagnostic, and no
\* result is built.
RunThrows(c) ==
    [op |-> "run", status |-> "error",
     err |-> call[c].err, n |-> 0]

\* The same for loader.boxed_run in loader_boxed_run.
BoxedRunThrows(c) ==
    [op |-> "boxed_run", status |-> "error",
     err |-> call[c].err, n |-> 0]

\* What the caller gets from return result.
RunReturns(c) ==
    [op |-> call[c].kind, status |-> "ok",
     err |-> "", n |-> Len(call[c].result)]

\* The heap after return result: the OwnedTensors are the caller's.
HandOver(h, result) ==
    [a \in Addr |-> IF a \in Range(result) THEN [h[a] EXCEPT !.owner = "caller"]
                    ELSE h[a]]

Borrowed(a) == \E c \in Callers : pc[c] # "idle" /\ a \in Range(call[c].inputs)

CallerOwned(h) == {a \in Addr : h[a].owner = "caller"}

\* Faulty variant: the first loop deletes each tensor after copying it.
AfterMarshalConsume(h, inputs) ==
    [a \in Addr |-> IF a \in Range(inputs) THEN NoTensor ELSE h[a]]

\* The heap after the first loop: the loop copies each tensor out of the
\* caller's object and leaves the object alone.
AfterMarshal(h, inputs) == h

\* Line 35 / 59, the runtime answers.
InvokeOk(c, kind, inputs, cpp_inputs, o) ==
    /\ o.ok
    /\ call' = [call EXCEPT ![c] =
                  [kind |-> kind, inputs |-> inputs, cpp_inputs |-> cpp_inputs,
                   outputs |-> o.outs, result |-> <<>>, err |-> "",
                   invocations |-> 1]]
    /\ pc' = [pc EXCEPT ![c] = "ran"]

\* Line 35 / 59, the runtime throws: the exception is in flight and the
\* function's locals are on their way out.
InvokeThrows(c, kind, inputs, cpp_inputs, o) ==
    /\ ~o.ok
    /\ call' = [call EXCEPT ![c] =
                  [kind |-> kind, inputs |-> <<>>, cpp_inputs |-> <<>>,
                   outputs |-> <<>>, result |-> <<>>, err |-> o.diag,
                   invocations |-> 1]]
    /\ pc' = [pc EXCEPT ![c] = "threw"]

\* Lines 26-35 / 52-59: the inputs are marshalled and the runtime is invoked.
Invoke(c, kind, inputs) ==
    /\ ~crashed
    /\ pc[c] = "idle"
    /\ loader.state \in {"Ready", "Released"}
    /\ \/ LET cpp_inputs == IF kind = "run" THEN MarshalInputs(heap, inputs)
                            ELSE BoxedMarshalInputs(heap, inputs)
          IN /\ \E o \in (IF kind = "run" THEN LoaderRun(loader.pkg, cpp_inputs)
                          ELSE LoaderBoxedRun(loader.pkg, cpp_inputs)) :
                   \/ InvokeOk(c, kind, inputs, cpp_inputs, o)
                   \/ InvokeThrows(c, kind, inputs, cpp_inputs, o)
             /\ heap' = AfterMarshal(heap, inputs)
             /\ UNCHANGED <<loader, last, reads, everReturned, staticMd, crashed>>
       \/ UseAfterFreeCrash

\* The exception leaves the function: cpp_inputs is destroyed on the way.
Unwind(c) ==
    /\ ~crashed
    /\ pc[c] = "threw"
    /\ last' = IF call[c].kind = "run" THEN RunThrows(c) ELSE BoxedRunThrows(c)
    /\ call' = [call EXCEPT ![c] = NoCall]
    /\ pc' = [pc EXCEPT ![c] = "idle"]
    /\ UNCHANGED <<loader, heap, reads, everReturned, staticMd, crashed>>

\* Lines 37-45 / 61-68.
Box(c) ==
    /\ ~crashed
    /\ pc[c] = "ran"
    /\ \E addrs \in NewAddrs(heap, Len(call[c].outputs)) :
          /\ heap' = BoxOutputs(heap, call[c].outputs, addrs)
          /\ call' = [call EXCEPT ![c].result = ResultOf(addrs)]
    /\ pc' = [pc EXCEPT ![c] = "boxed"]
    /\ UNCHANGED <<loader, last, reads, everReturned, staticMd, crashed>>

\* Line 46 / 69.
Return(c) ==
    /\ ~crashed
    /\ pc[c] = "boxed"
    /\ heap' = HandOver(heap, call[c].result)
    /\ last' = RunReturns(c)
    /\ everReturned' = everReturned \cup Range(call[c].result)
    /\ call' = [call EXCEPT ![c] = NoCall]
    /\ pc' = [pc EXCEPT ![c] = "idle"]
    /\ UNCHANGED <<loader, reads, staticMd, crashed>>

loader_run(c) ==
    \/ \E inputs \in SeqsUpTo(CallerOwned(heap), MaxLen) : Invoke(c, "run", inputs)
    \/ call[c].kind = "run" /\ (Unwind(c) \/ Box(c) \/ Return(c))

loader_boxed_run(c) ==
    \/ \E inputs \in SeqsUpTo(CallerOwned(heap), MaxLen) : Invoke(c, "boxed_run", inputs)
    \/ call[c].kind = "boxed_run" /\ (Unwind(c) \/ Box(c) \/ Return(c))

\* The caller drops a tensor it owns and no call in flight borrows.
ReleaseTensor(a) ==
    /\ ~crashed
    /\ heap[a].owner = "caller"
    /\ ~Borrowed(a)
    /\ heap' = [heap EXCEPT ![a] = NoTensor]
    /\ UNCHANGED <<loader, pc, call, last, reads, everReturned, staticMd, crashed>>

\* ---------------------------------------------------------- introspection
\* The orders a range-for may visit the entries of the metadata map in.
Iterations(m) ==
    {s \in [1..Cardinality(m) -> m] : \A i, j \in 1..Len(s) : i # j => s[i] # s[j]}

\* loader.get_metadata() and the static load_metadata_from_package(path, name).
LoaderGetMetadata(p) == Packages[p].metadata
StaticLoadMetadata(p) == Packages[p].metadata
LoaderGetCallSpec(p) == Packages[p].call_spec
LoaderGetConstantFqns(p) == Packages[p].constant_fqns

\* Faulty variant: the loop stops after the first entry.
MetadataVecFirstOnly(it) ==
    [i \in 1..(IF Len(it) > 0 THEN 1 ELSE 0) |-> [key |-> it[i][1], value |-> it[i][2]]]

\* for (const auto& [k, v] : metadata) { entry.key = k; entry.value = v; push_back }
MetadataVec(it) == [i \in 1..Len(it) |-> [key |-> it[i][1], value |-> it[i][2]]]

\* Faulty variant: entry.value is built from k.
StaticMetadataVecKeyTwice(it) == [i \in 1..Len(it) |-> [key |-> it[i][1], value |-> it[i][1]]]

\* The same loop of loader_load_metadata_from_package.
StaticMetadataVec(it) == [i \in 1..Len(it) |-> [key |-> it[i][1], value |-> it[i][2]]]

\* for (const auto& s : specs) result.push_back(rust::String(s))
CallSpecVec(specs) == [i \in 1..Len(specs) |-> specs[i]]

\* for (const auto& s : fqns) result.push_back(rust::String(s))
ConstantFqnsVec(fqns) == [i \in 1..Len(fqns) |-> fqns[i]]

Answer(g, result) ==
    /\ last' = [op |-> g, status |-> "ok", err |-> "",
                n |-> Len(result)]
    /\ reads' = IF loader.state = "Ready" THEN [reads EXCEPT ![g] = <<result>>]
                ELSE reads
    /\ UNCHANGED <<loader, heap, pc, call, everReturned, staticMd, crashed>>

loader_get_metadata ==
    /\ ~crashed
    /\ loader.state \in {"Ready", "Released"}
    /\ \/ \E it \in Iterations(LoaderGetMetadata(loader.pkg)) :
             Answer("get_metadata", MetadataVec(it))
       \/ UseAfterFreeCrash

loader_get_call_spec ==
    /\ ~crashed
    /\ loader.state \in {"Ready", "Released"}
    /\ \/ Answer("get_call_spec", CallSpecVec(LoaderGetCallSpec(loader.pkg)))
       \/ UseAfterFreeCrash

loader_get_constant_fqns ==
    /\ ~crashed
    /\ loader.state \in {"Ready", "Released"}
    /\ \/ Answer("get_constant_fqns", ConstantFqnsVec(LoaderGetConstantFqns(loader.pkg)))
       \/ UseAfterFreeCrash

loader_load_metadata_from_package(p) ==
    /\ ~crashed
    /\ \E it \in Iterations(StaticLoadMetadata(p)) :
          /\ staticMd' = [staticMd EXCEPT ![p] =
                            <<[onState |-> loader.state, val |-> StaticMetadataVec(it)]>>]
          /\ last' = [op |-> "load_metadata_from_package", status |-> "ok", err |-> "",
                      n |-> Len(StaticMetadataVec(it))]
    /\ UNCHANGED <<loader, heap, pc, call, reads, everReturned, crashed>>

\* ---------------------------------------------------------- specifications
Lifecycle ==
    \/ \E p \in PackageIds, cf \in Configs : loader_new(p, cf.single, cf.runners)
    \/ Release

Next ==
    \/ Lifecycle
    \/ \E c \in Callers : loader_run(c)
    \/ \E c \in Callers : loader_boxed_run(c)
    \/ \E a \in Addr : ReleaseTensor(a)
    \/ loader_get_metadata
    \/ loader_get_call_spec
    \/ loader_get_constant_fqns
    \/ \E p \in PackageIds : loader_load_metadata_from_package(p)

Spec == Init /\ [][Next]_vars

\* Execution: every caller runs, the tensors are released, the loader is
\* opened and destroyed.
NextRun ==
    \/ Lifecycle
    \/ \E c \in Callers : loader_run(c)
    \/ \E c \in Callers : loader_boxed_run(c)
    \/ \E a \in Addr : ReleaseTensor(a)

SpecRun == Init /\ [][NextRun]_vars

\* Introspection, interleaved with the calls of one running thread.
NextRead ==
    \/ Lifecycle
    \/ loader_run("t1")
    \/ loader_boxed_run("t1")
    \/ \E a \in Addr : ReleaseTensor(a)
    \/ loader_get_metadata
    \/ loader_get_call_spec
    \/ loader_get_constant_fqns

SpecRead == Init /\ [][NextRead]_vars

\* The static metadata read against the loader's.
NextStatic ==
    \/ Lifecycle
    \/ loader_get_metadata
    \/ \E p \in PackageIds : loader_load_metadata_from_package(p)

SpecStatic == Init /\ [][NextStatic]_vars

\* ------------------------------------------------------------ properties
Runs == {"run", "boxed_run"}

Injective(s) == \A i, j \in 1..Len(s) : i # j => s[i] # s[j]

\* The values behind a sequence of handles.
ValuesAt(h, s) == [i \in 1..Len(s) |-> h[s[i]].val]

\* Caller c's call returns in this step.
ReturnStep(c) == pc[c] = "boxed" /\ pc'[c] = "idle"

\* C3, as stated: the handles a call returns differ from each other, from the
\* call's inputs and from every handle any call has ever returned.
C3_FreshAmongAllEverReturned ==
    [][\A c \in Callers : ReturnStep(c) =>
          /\ Injective(call[c].result)
          /\ Range(call[c].result) \cap Range(call[c].inputs) = {}
          /\ Range(call[c].result) \cap everReturned = {}]_vars

\* C3, amended: the handles a call returns differ from each other, from the
\* call's inputs, from every handle the caller holds when the call returns
\* (so from every earlier output not released since) and from the outputs of
\* every other call in flight.
C3_FreshAmongLiveHandles ==
    [][\A c \in Callers : ReturnStep(c) =>
          /\ Injective(call[c].result)
          /\ Range(call[c].result) \cap Range(call[c].inputs) = {}
          /\ Range(call[c].result) \cap CallerOwned(heap) = {}
          /\ \A d \in Callers \ {c} :
                Range(call[c].result) \cap Range(call[d].result) = {}]_vars

\* A call has returned two handles, or a second call has returned while the
\* output of an earlier one is still held.
C3_Witness ==
    /\ last.op \in Runs /\ last.status = "ok"
    /\ Cardinality(everReturned \cap CallerOwned(heap)) >= 2

C4_Inv ==
    /\ \A c \in Callers : call[c].kind = "run" /\ pc[c] \in {"ran", "boxed"} =>
          \A a \in Range(call[c].inputs) : heap[a].owner = "caller"
    /\ \A a \in Addr : heap[a].owner = "core" =>
          Cardinality({c \in Callers : pc[c] = "boxed" /\ a \in Range(call[c].result)}) = 1

C4_Act ==
    /\ \A a \in Addr :
          /\ heap[a].owner = "caller" => heap'[a].owner # "core"
          /\ heap[a].owner # "caller" /\ heap'[a].owner = "caller" =>
                /\ heap[a].owner = "core"
                /\ \E c \in Callers : ReturnStep(c) /\ a \in Range(call[c].result)
          /\ heap[a].owner = "core" /\ heap'[a].owner # "core" => heap'[a].owner = "caller"
    /\ \A c \in Callers : ReturnStep(c) =>
          /\ \A a \in Range(call[c].result) : heap'[a].owner = "caller"
          /\ call[c].kind = "run" =>
                \A a \in Range(call[c].inputs) : heap'[a] = heap[a]

\* C4: every tensor has one owner.  The inputs of a run in flight are the
\* caller's, and still are when it returns; the core never becomes the owner
\* of a caller's tensor; an output is the core's from its allocation until the
\* call that allocated it returns, and becomes the caller's in that step and
\* in no other.
C4_Ownership == [](C4_Inv) /\ [][C4_Act]_vars

\* A run has returned a handle the caller now owns.
C4_Witness ==
    /\ last.op = "run" /\ last.status = "ok" /\ last.n >= 1
    /\ \E a \in everReturned : heap[a].owner = "caller"

\* What caller c's call is about to return, by value.
OutVals(c) == IF pc[c] = "boxed" THEN ValuesAt(heap, call[c].result)
              ELSE call[c].outputs

C7_FailurePropagates ==
    [][\A c \in Callers : pc[c] = "threw" /\ pc'[c] # "threw" =>
          /\ pc'[c] = "idle"
          /\ last'.op = call[c].kind
          /\ last'.status = "error"
          /\ last'.err = call[c].err
          /\ last'.n = 0
          /\ heap' = heap
          /\ call[c].invocations = 1]_vars

\* A run has failed on the wrong number of inputs.
C7_Witness == last.op = "run" /\ last.status = "error" /\ last.err = "arity"

\* C10: the tensors handed to the entry point are the caller's inputs in the
\* caller's order, the outputs are the entry point's for them, and the i-th
\* handle of the result holds the i-th output.
C10_PositionalMarshalling ==
    \A c \in Callers :
        /\ pc[c] \in {"ran", "boxed"} =>
              /\ call[c].cpp_inputs = ValuesAt(heap, call[c].inputs)
              /\ call[c].outputs = EntryPoint(loader.pkg, ValuesAt(heap, call[c].inputs)).outs
        /\ pc[c] = "boxed" =>
              /\ Len(call[c].result) = Len(call[c].outputs)
              /\ ValuesAt(heap, call[c].result) = call[c].outputs

\* A call on two inputs of different values is about to return.
C10_Witness ==
    \E c \in Callers :
        /\ pc[c] = "boxed" /\ Len(call[c].inputs) = 2
        /\ call[c].cpp_inputs[1] # call[c].cpp_inputs[2]
        /\ Len(call[c].result) >= 1

\* A call with two outputs of different values is about to return.
TwoOutputsBoxed ==
    \E c \in Callers :
        /\ pc[c] = "boxed" /\ Len(call[c].result) = 2
        /\ call[c].outputs[1] # call[c].outputs[2]

\* Two vectors of entries that are the same mapping.
SameMapping(x, y) == Range(x) = Range(y) /\ Len(x) = Len(y)

SameResult(g, x, y) == IF g = "get_metadata" THEN SameMapping(x, y) ELSE x = y

\* An introspection call returns in this step.
GetterStep == reads' # reads \/ (last' # last /\ last'.op \in Getters)

\* C2, as stated: once the loader is released, a call on it does nothing but
\* fail with InvalidHandleError: no run begins, the process does not die, and
\* whatever a call returns is that error.
C2_CallsAfterReleaseFail ==
    [][loader.state = "Released" =>
          /\ pc' = pc
          /\ crashed' = crashed
          /\ last' # last => last'.status = "InvalidHandleError"]_vars

C8_Inv == reads["get_call_spec"] # <<>> => Len(reads["get_call_spec"][1]) > 0

C8_Act ==
    /\ \A g \in Getters : reads[g] # <<>> /\ reads'[g] # <<>> =>
          SameResult(g, reads[g][1], reads'[g][1])
    /\ GetterStep => loader' = loader /\ pc' = pc /\ call' = call /\ heap' = heap

StaticStep ==
    \/ staticMd' # staticMd
    \/ last' # last /\ last'.op = "load_metadata_from_package"

C9_Inv ==
    \A p \in PackageIds :
        /\ staticMd[p] # <<>>
        /\ loader.state = "Ready" /\ loader.pkg = p
        /\ reads["get_metadata"] # <<>>
        => SameMapping(staticMd[p][1].val, reads["get_metadata"][1])

C9_Act ==
    StaticStep =>
        /\ last'.status = "ok"
        /\ loader' = loader /\ pc' = pc /\ call' = call /\ heap' = heap

====
